---- MODULE Spec2Model ----
(***************************************************************************)
(* Travel price tracker: the three price-extraction heuristics of          *)
(* scraper.py (parse_skyscanner_page, parse_oyo_page, parse_gozo_page),    *)
(* the three source orchestrators and the run entry point of               *)
(* run_scraper.py.                                                         *)
(*                                                                         *)
(* A page text (BeautifulSoup's get_text(" ", strip=True)) is a sequence   *)
(* of characters; a character is a one-character string, and "Rs" stands   *)
(* for the rupee sign U+20B9.  Prices are naturals small enough for        *)
(* Python's float() to represent them exactly.                             *)
(***************************************************************************)
EXTENDS Integers, Sequences, FiniteSets, TLC

VARIABLES
    full_text,          \* the page text handed to an extraction heuristic
    parsed,             \* the dict the heuristic returned (NotParsed before the call)
    pc,                 \* where main() of run_scraper.py stands
    idx,                \* the position of the running orchestrator in its target list
    cand,               \* scrape_hotel_rates: the candidate URL to try next
    html,               \* scrape_hotel_rates: the page fetched for the target
    chosen_url,         \* scrape_hotel_rates: the candidate that was fetched
    flight_rows,        \* what scrape_flight_prices has collected
    hotel_rows,         \* what scrape_hotel_rates has collected
    rental_rows,        \* what scrape_rental_car_prices has collected
    flight_prices,      \* table flight_prices
    hotel_rates,        \* table hotel_rates
    rental_car_prices,  \* table rental_car_prices
    scraped_at,         \* the timestamp main() took
    clock,              \* the wall clock
    log,                \* the [OK] and [WARN] lines printed
    trace,              \* the requests issued and the sleeps taken, in order
    config,             \* config.py: the three lists of target descriptors
    net,                \* the outcomes a request can have in this environment
    run,                \* the number of the run of run_scraper.py
    schema,             \* the columns of the three tables in the store
    alter_error,        \* the error the store answers an ALTER TABLE with, if any
    txns,               \* the write transactions the store has committed
    view,               \* the data frames the dashboard has loaded
    proxy_env,          \* config.py: USE_PROXY and the PROXY_* settings
    wire,               \* what requests.get meets on the network
    fetched             \* what fetch_page returned or raised

parseVars == <<full_text, parsed>>

\* the environment of a run and the dashboard
envVars == <<config, net, run, alter_error, view>>

\* the store besides the rows of the three tables
dbVars == <<schema, txns>>

fetchVars == <<proxy_env, wire, fetched>>

runVars ==
    <<pc, idx, cand, html, chosen_url, flight_rows, hotel_rows, rental_rows,
      flight_prices, hotel_rates, rental_car_prices, scraped_at, clock, log, trace,
      envVars, dbVars, fetchVars>>

vars ==
    <<full_text, parsed, pc, idx, cand, html, chosen_url, flight_rows, hotel_rows,
      rental_rows, flight_prices, hotel_rates, rental_car_prices, scraped_at,
      clock, log, trace, config, net, run, schema, alter_error, txns, view,
      proxy_env, wire, fetched>>

(***************************************************************************)
(* Characters and the regular expressions of scraper.py                    *)
(***************************************************************************)
Marker == "Rs"

None == -1

DEFAULT_CURRENCY == "INR"

TOP_N == 20

OYO_FLOOR == 300

GOZO_FLOOR == 100

Digits == <<"0", "1", "2", "3", "4", "5", "6", "7", "8", "9">>

\* \s of the pattern
IsSpace(c) == c = " "

\* \d of the pattern
IsDigit(c) == c \in {"0", "1", "2", "3", "4", "5", "6", "7", "8", "9"}

\* [\d,] of the pattern
IsGroupChar(c) == IsDigit(c) \/ c = ","

DigitVal(c) == (CHOOSE k \in 1..10 : Digits[k] = c) - 1

\* the search without re.IGNORECASE
Lower_CaseSensitive(c) == c

\* re.IGNORECASE on the letters of the label
Lower(c) ==
    CASE c = "C" -> "c" [] c = "H" -> "h" [] c = "E" -> "e" [] c = "A" -> "a"
      [] c = "P" -> "p" [] c = "S" -> "s" [] c = "T" -> "t" [] c = "D" -> "d"
      [] c = "L" -> "l" [] OTHER -> c

\* the literal "Cheapest deal" of the pattern, case-folded
LabelPattern == <<"c", "h", "e", "a", "p", "e", "s", "t", " ", "d", "e", "a", "l">>

\* \s* from position i (greedy): the first position that is not whitespace
SkipSpaces(t, i) ==
    CHOOSE j \in i..(Len(t) + 1) :
        /\ \A k \in i..(j - 1) : IsSpace(t[k])
        /\ j <= Len(t) => ~IsSpace(t[j])

\* [\d,]+ from position i (greedy): the first position past the group
SkipGroup(t, i) ==
    CHOOSE j \in i..(Len(t) + 1) :
        /\ \A k \in i..(j - 1) : IsGroupChar(t[k])
        /\ j <= Len(t) => ~IsGroupChar(t[j])

NoMatch == [ok |-> FALSE, start |-> 0, stop |-> 0, group |-> <<>>]

\* the pattern  Rs\s*([\d,]+)  anchored at position i
MatchPriceAt(t, i) ==
    IF i > Len(t) \/ t[i] # Marker THEN NoMatch
    ELSE LET g == SkipSpaces(t, i + 1)
             e == SkipGroup(t, g)
         IN  IF e > g
             THEN [ok |-> TRUE, start |-> i, stop |-> e - 1,
                   group |-> SubSeq(t, g, e - 1)]
             ELSE NoMatch

RECURSIVE FindAllFrom(_, _)
\* the matches of  Rs\s*([\d,]+)  from position i on, left to right, not
\* overlapping: the leftmost match at or after i, then the scan resumes
\* behind it
FindAllFrom(t, i) ==
    LET starts == {j \in i..Len(t) : MatchPriceAt(t, j).ok}
    IN  IF starts = {} THEN <<>>
        ELSE LET first == CHOOSE j \in starts : \A k \in starts : j <= k
                 m == MatchPriceAt(t, first)
             IN  <<m>> \o FindAllFrom(t, m.stop + 1)

\* re.findall / re.finditer of  Rs\s*([\d,]+)
re_finditer(t) == FindAllFrom(t, 1)

\* the literal label matches at position i, ignoring case
LabelAt(t, i) ==
    /\ i + Len(LabelPattern) - 1 <= Len(t)
    /\ \A k \in 1..Len(LabelPattern) : Lower(t[i + k - 1]) = LabelPattern[k]

\* [^Rs]* from position i (greedy): the first marker at or after i
SkipNonMarker(t, i) ==
    CHOOSE j \in i..(Len(t) + 1) :
        /\ \A k \in i..(j - 1) : t[k] # Marker
        /\ j <= Len(t) => t[j] = Marker

\* the pattern  Cheapest deal[^Rs]*Rs\s*([\d,]+)  anchored at position i
MatchLabelAt(t, i) ==
    IF ~LabelAt(t, i) THEN NoMatch
    ELSE LET m == MatchPriceAt(t, SkipNonMarker(t, i + Len(LabelPattern)))
         IN  IF m.ok THEN [m EXCEPT !.start = i] ELSE NoMatch

\* the scan of re.search: the match anchored at the leftmost position that
\* has one
SearchLabelFrom(t, i) ==
    LET starts == {j \in i..Len(t) : MatchLabelAt(t, j).ok}
    IN  IF starts = {} THEN NoMatch
        ELSE MatchLabelAt(t, CHOOSE j \in starts : \A k \in starts : j <= k)

\* re.search of the labelled pattern: the leftmost match
re_search_label(t) == SearchLabelFrom(t, 1)

(***************************************************************************)
(* Number parsing and formatting                                           *)
(***************************************************************************)
\* str.replace(",", "")
StripCommas(g) == SelectSeq(g, LAMBDA c : c # ",")

\* int(s) and float(s) raise ValueError exactly on the empty string here
Parseable(g) == StripCommas(g) # <<>>

RECURSIVE DigitsValue(_)
DigitsValue(d) ==
    IF d = <<>> THEN 0
    ELSE 10 * DigitsValue(SubSeq(d, 1, Len(d) - 1)) + DigitVal(d[Len(d)])

\* int(g.replace(",", "")) / float(g.replace(",", ""))
ParseNumber(g) == DigitsValue(StripCommas(g))

RECURSIVE DigitsOf(_)
\* str(v)
DigitsOf(v) ==
    IF v < 10 THEN <<Digits[v + 1]>>
    ELSE DigitsOf(v \div 10) \o <<Digits[(v % 10) + 1]>>

RECURSIVE GroupThousands(_)
GroupThousands(d) ==
    IF Len(d) <= 3 THEN d
    ELSE GroupThousands(SubSeq(d, 1, Len(d) - 3)) \o <<",">>
         \o SubSeq(d, Len(d) - 2, Len(d))

\* f"Rs {v:,}"
FormatRaw(v) == <<Marker, " ">> \o GroupThousands(DigitsOf(v))

\* f"Rs {numeric_str}"
LabelRaw(g) == <<Marker, " ">> \o g

\* the try/except loop over the matches: unparseable groups are dropped
ParsedValues(ms) ==
    LET good == SelectSeq(ms, LAMBDA m : Parseable(m.group))
    IN  [k \in 1..Len(good) |-> ParseNumber(good[k].group)]

SeqRange(s) == {s[k] : k \in 1..Len(s)}

\* min(values)
Min(s) == CHOOSE x \in SeqRange(s) : \A y \in SeqRange(s) : x <= y

(***************************************************************************)
(* The three extraction heuristics                                         *)
(***************************************************************************)
\* Step 1 with cheapest_raw assigned before the conversion is attempted
SkyLabelled_RawFirst(t) ==
    LET m == re_search_label(t)
    IN  IF m.ok
        THEN [price |-> IF Parseable(m.group) THEN ParseNumber(m.group) ELSE None,
              price_raw |-> LabelRaw(m.group)]
        ELSE [price |-> None, price_raw |-> <<>>]

\* Step 1 of parse_skyscanner_page: the price near the label
SkyLabelled(t) ==
    LET m == re_search_label(t)
    IN  IF m.ok /\ Parseable(m.group)
        THEN [price |-> ParseNumber(m.group), price_raw |-> LabelRaw(m.group)]
        ELSE [price |-> None, price_raw |-> <<>>]

Max(s) == CHOOSE x \in SeqRange(s) : \A y \in SeqRange(s) : x >= y

\* Step 2 taking max(values)
SkyFallback_Max(t, s1) ==
    LET values == ParsedValues(re_finditer(t))
    IN  IF values # <<>>
        THEN [price |-> Max(values), price_raw |-> FormatRaw(Max(values))]
        ELSE s1

\* Step 2 of parse_skyscanner_page: min of all amounts on the page;
\* cheapest_price and cheapest_raw keep what step 1 left (s1) when the page
\* has no value
SkyFallback(t, s1) ==
    LET values == ParsedValues(re_finditer(t))
    IN  IF values # <<>>
        THEN [price |-> Min(values), price_raw |-> FormatRaw(Min(values))]
        ELSE s1

parse_skyscanner_page(t) ==
    LET s1 == SkyLabelled(t)
        r  == IF s1.price = None THEN SkyFallback(t, s1) ELSE s1
    IN  [currency |-> DEFAULT_CURRENCY, price |-> r.price,
         price_raw |-> r.price_raw]

\* the [:N] slice taken over the matches, before the unparseable ones are
\* dropped
top_values_SlicesMatches(t) ==
    LET ms == re_finditer(t)
    IN  ParsedValues(SubSeq(ms, 1, IF Len(ms) < TOP_N THEN Len(ms) ELSE TOP_N))

\* ordered_values without the [:N] slice
top_values_Unsliced(t) == ParsedValues(re_finditer(t))

\* ordered_values[:N]
top_values(t) ==
    LET ordered_values == ParsedValues(re_finditer(t))
    IN  SubSeq(ordered_values, 1,
               IF Len(ordered_values) < TOP_N THEN Len(ordered_values) ELSE TOP_N)

\* filtered = [v for v in values if v >= floor]; min(filtered) or min(values)
FloorMin(values, floor) ==
    LET filtered == SelectSeq(values, LAMBDA v : v >= floor)
    IN  IF filtered # <<>> THEN Min(filtered)
        ELSE IF values # <<>> THEN Min(values) ELSE None

\* the filter written v > 300
parse_oyo_page_Strict(t) ==
    LET chosen == FloorMin(top_values(t), OYO_FLOOR + 1)
    IN  IF chosen # None
        THEN [currency |-> "INR", price |-> chosen, price_raw |-> FormatRaw(chosen)]
        ELSE [currency |-> "INR", price |-> None, price_raw |-> <<>>]

parse_oyo_page(t) ==
    LET chosen == FloorMin(top_values(t), OYO_FLOOR)
    IN  IF chosen # None
        THEN [currency |-> "INR", price |-> chosen, price_raw |-> FormatRaw(chosen)]
        ELSE [currency |-> "INR", price |-> None, price_raw |-> <<>>]

\* the filter written v > 100
parse_gozo_page_Strict(t) ==
    LET chosen == FloorMin(ParsedValues(re_finditer(t)), GOZO_FLOOR + 1)
    IN  IF chosen # None
        THEN [currency |-> "INR", price |-> chosen, price_raw |-> FormatRaw(chosen)]
        ELSE [currency |-> "INR", price |-> None, price_raw |-> <<>>]

parse_gozo_page(t) ==
    LET chosen == FloorMin(ParsedValues(re_finditer(t)), GOZO_FLOOR)
    IN  IF chosen # None
        THEN [currency |-> "INR", price |-> chosen, price_raw |-> FormatRaw(chosen)]
        ELSE [currency |-> "INR", price |-> None, price_raw |-> <<>>]

(***************************************************************************)
(* Page texts: text nodes joined by single spaces                          *)
(***************************************************************************)
SegLabel == <<"C", "h", "e", "a", "p", "e", "s", "t", " ", "d", "e", "a", "l">>

SegLabelUpper == <<"C", "H", "E", "A", "P", "E", "S", "T", " ", "D", "E", "A", "L">>

SegText == <<"f", "r", "o", "m">>

Tok4999 == <<Marker, " ", "4", ",", "9", "9", "9">>

Tok100 == <<Marker, "1", "0", "0">>

Tok99 == <<Marker, " ", "9", "9">>

Tok300 == <<Marker, " ", "3", "0", "0">>

Tok299 == <<Marker, " ", "2", "9", "9">>

TokLakh == <<Marker, " ", "1", ",", "2", "3", ",", "4", "5", "6">>

TokBad == <<Marker, " ", ",">>

\* one text node: the label followed by a marker whose group has no digit
SegLabelBad == SegLabel \o <<" ">> \o TokBad

RECURSIVE Join(_)
\* " ".join(segments)
Join(segs) ==
    IF segs = <<>> THEN <<>>
    ELSE IF Len(segs) = 1 THEN segs[1]
    ELSE segs[1] \o <<" ">> \o Join(Tail(segs))

SeqsUpTo(S, n) == UNION {[1..k -> S] : k \in 0..n}

MaxSegs == 4

Segments ==
    {SegLabel, SegLabelUpper, SegLabelBad, SegText, Tok100, Tok99, TokLakh, TokBad}

ShortPages == {Join(segs) : segs \in SeqsUpTo(Segments, MaxSegs)}

(***************************************************************************)
(* Configuration (config.py): two targets of each category stand for the   *)
(* configured lists; the second hotel bucket lists three mirror URLs, the  *)
(* first a single URL string.                                              *)
(***************************************************************************)
NoUrl == [base |-> "", query |-> ""]

\* html = None
NoHtml == [fetched |-> FALSE, markup_ok |-> FALSE, text |-> <<>>]

Url(b) == [base |-> b, query |-> ""]

FLIGHT_ROUTES ==
    << [code |-> "BLR-DEL", url |-> Url("skyscanner/routes/blr/del")],
       [code |-> "DEL-BLR", url |-> Url("skyscanner/routes/del/blr")] >>

HOTEL_STAYS ==
    << [code |-> "OYO-BLR-ALL", url_is_list |-> FALSE,
        url |-> <<"oyorooms/hotels-in-bangalore/">>],
       [code |-> "OYO-BOM-ALL", url_is_list |-> TRUE,
        url |-> <<"oyorooms/oyos-in-mumbai/", "oyorooms/hotels-in-in-mumbai/",
                  "oyorooms/budget-hotels-in-mumbai/">>] >>

RENTAL_CAR_OFFERS ==
    << [code |-> "BLR-LOCAL-GOZO", url |-> Url("gozocabs/car-rental/bangalore")],
       [code |-> "BLR-MYS-GOZO", url |-> Url("gozocabs/book-taxi/bangalore-mysore")] >>

\* check-in TRAVEL_DATE_STR, check-out the day after, sorted by price ascending
_build_oyo_url_with_dates(base_url) ==
    [base |-> base_url,
     query |-> "checkin=07/12/2025&checkout=08/12/2025&guests=1&rooms=1&sort=price&sortOrder=ascending"]

\* base_urls, then the dated URL of each
candidate_urls(stay) ==
    LET base_urls == IF stay.url_is_list THEN stay.url ELSE <<stay.url[1]>>
    IN  [k \in 1..Len(base_urls) |-> _build_oyo_url_with_dates(base_urls[k])]

(***************************************************************************)
(* fetch_page and the pages it returns                                     *)
(***************************************************************************)
PagePriced == Join(<<SegLabel, Tok4999, Tok100>>)

PageNoPrice == SegLabelBad

\* a page with a price, a page without one, and markup that BeautifulSoup's
\* html.parser rejects (it raises ParserRejectedMarkup)
Htmls ==
    {[fetched |-> TRUE, markup_ok |-> TRUE, text |-> PagePriced],
     [fetched |-> TRUE, markup_ok |-> TRUE, text |-> PageNoPrice],
     [fetched |-> TRUE, markup_ok |-> FALSE, text |-> <<>>]}

\* fetch_page returns resp.text, or raises: RequestException from
\* requests.get / raise_for_status, ValueError from get_proxy_dict
FetchOutcomes ==
    {[kind |-> "ok", html |-> h] : h \in Htmls}
    \cup {[kind |-> "RequestException", html |-> NoHtml],
          [kind |-> "Exception", html |-> NoHtml]}

FetchEvent(u, out) == [ev |-> "fetch", url |-> u, result |-> out.kind]

SleepEvent == [ev |-> "sleep", url |-> NoUrl, result |-> ""]

LogLine(kind, cause, code) == [kind |-> kind, cause |-> cause, code |-> code]

\* the [OK] / [WARN] No price found line
PriceLine(p, code) ==
    IF p.price = None THEN LogLine("no_price", "", code) ELSE LogLine("ok", "", code)

Row(code, p, u) ==
    [code |-> code, currency |-> p.currency, price |-> p.price,
     price_raw |-> p.price_raw, url |-> u]

\* the three lists as config.py sets them
Configured ==
    [FLIGHT_ROUTES |-> FLIGHT_ROUTES, HOTEL_STAYS |-> HOTEL_STAYS,
     RENTAL_CAR_OFFERS |-> RENTAL_CAR_OFFERS]

\* one target of each category, the hotel bucket with its mirrors
OneOfEach ==
    [FLIGHT_ROUTES |-> <<FLIGHT_ROUTES[1]>>, HOTEL_STAYS |-> <<HOTEL_STAYS[2]>>,
     RENTAL_CAR_OFFERS |-> <<RENTAL_CAR_OFFERS[1]>>]

\* a hotel bucket whose list of mirror URLs is empty, ahead of a bucket with
\* a URL
EmptyMirrorList ==
    [FLIGHT_ROUTES |-> <<FLIGHT_ROUTES[1]>>,
     HOTEL_STAYS |-> << [code |-> "OYO-GOI-ALL", url_is_list |-> TRUE, url |-> <<>>],
                        HOTEL_STAYS[1] >>,
     RENTAL_CAR_OFFERS |-> <<RENTAL_CAR_OFFERS[1]>>]

\* the target codes in the order of ORDER BY ... _code ASC
CodesAscending ==
    <<"BLR-DEL", "BLR-LOCAL-GOZO", "BLR-MYS-GOZO", "DEL-BLR", "OYO-BLR-ALL",
      "OYO-BOM-ALL", "OYO-GOI-ALL">>

CodeRank(code) == CHOOSE k \in 1..Len(CodesAscending) : CodesAscending[k] = code

(***************************************************************************)
(* The store (db.py): the schema of the three tables                       *)
(***************************************************************************)
Tables == {"flight_prices", "hotel_rates", "rental_car_prices"}

ddl_flights ==
    <<"id", "route_code", "origin", "destination", "route_name", "provider_name",
      "currency", "price", "price_raw", "url", "travel_date", "scraped_at_utc">>

ddl_hotels ==
    <<"id", "hotel_code", "city", "hotel_name", "provider_name", "currency",
      "price", "price_raw", "url", "checkin_date", "checkout_date",
      "scraped_at_utc">>

\* route_name and travel_date are not part of the CREATE TABLE
ddl_rentals ==
    <<"id", "rental_code", "pickup_city", "dropoff_city", "pickup_date",
      "dropoff_date", "provider_name", "currency", "price", "price_raw", "url",
      "scraped_at_utc">>

\* a table that does not exist has no columns
NoTable == <<>>

\* CREATE TABLE IF NOT EXISTS
create_table_if_not_exists(sch, t, ddl) ==
    IF sch[t] = NoTable THEN [sch EXCEPT ![t] = ddl] ELSE sch

Position(cols, c) == CHOOSE k \in 1..Len(cols) : cols[k] = c

\* ALTER TABLE t ADD COLUMN c AFTER a, answered by the store with the error
\* fault when that is not ""
alter_table_add_column(sch, t, c, a, fault) ==
    LET cols == sch[t]
    IN  IF fault # "" THEN [schema |-> sch, error |-> fault]
        ELSE IF \E k \in 1..Len(cols) : cols[k] = c
        THEN [schema |-> sch, error |-> "Duplicate column name"]
        ELSE IF ~ \E k \in 1..Len(cols) : cols[k] = a
        THEN [schema |-> sch, error |-> "Unknown column"]
        ELSE [schema |-> [sch EXCEPT ![t] =
                            SubSeq(cols, 1, Position(cols, a)) \o <<c>>
                            \o SubSeq(cols, Position(cols, a) + 1, Len(cols))],
              error |-> ""]

\* the except clause of a migration re-raising every error
Reraised_Always(error) == error # ""

\* the except clause of a migration: "Duplicate column name" is ignored
Reraised(error) == error # "" /\ error # "Duplicate column name"

\* create_tables_if_not_exists: the three CREATE TABLE, then the two migrations
create_tables_if_not_exists(sch, fault) ==
    LET s1 == create_table_if_not_exists(sch, "flight_prices", ddl_flights)
        s2 == create_table_if_not_exists(s1, "hotel_rates", ddl_hotels)
        s3 == create_table_if_not_exists(s2, "rental_car_prices", ddl_rentals)
        m1 == alter_table_add_column(s3, "rental_car_prices", "route_name",
                                     "dropoff_date", fault)
        m2 == alter_table_add_column(m1.schema, "rental_car_prices", "travel_date",
                                     "url", fault)
    IN  IF Reraised(m1.error) THEN [schema |-> m1.schema, raised |-> TRUE]
        ELSE IF Reraised(m2.error) THEN [schema |-> m2.schema, raised |-> TRUE]
        ELSE [schema |-> m2.schema, raised |-> FALSE]

\* a store without tables
EmptyStore == [t \in Tables |-> NoTable]

\* stores as earlier versions of the program left them: the rental table
\* without the two added columns, or with the first of them only
OlderStores ==
    {[flight_prices |-> ddl_flights, hotel_rates |-> ddl_hotels,
      rental_car_prices |-> ddl_rentals],
     [flight_prices |-> ddl_flights, hotel_rates |-> NoTable,
      rental_car_prices |-> SubSeq(ddl_rentals, 1, 6) \o <<"route_name">>
                            \o SubSeq(ddl_rentals, 7, 12)]}

\* the errors a store answers an ALTER TABLE with, besides a duplicate column
AlterErrors == {"", "ALTER command denied"}

\* a transaction of insert_*: one executemany of the INSERT
Txn(t, rows) == [table |-> t, rows |-> rows]

\* the dashboard before it has loaded anything
NoView ==
    [loaded |-> FALSE, flight_prices |-> <<>>, hotel_rates |-> <<>>,
     rental_car_prices |-> <<>>]

\* SELECT * FROM t ORDER BY scraped_at_utc ASC, <code> ASC
select_ordered(table) ==
    SortSeq(table, LAMBDA a, b :
        \/ a.scraped_at_utc < b.scraped_at_utc
        \/ /\ a.scraped_at_utc = b.scraped_at_utc
           /\ CodeRank(a.code) < CodeRank(b.code))

(***************************************************************************)
(* fetch_page and get_proxy_dict on one request                            *)
(***************************************************************************)
\* os.getenv: <<>> when the variable is unset, else <<its value>>
\* the .env settings of the proxy
ProxyEnvs ==
    [USE_PROXY : {<<>>, <<"0">>, <<"1">>},
     PROXY_HOST : {<<>>, <<"">>, <<"1">>}, PROXY_PORT : {<<>>, <<"">>, <<"1">>},
     PROXY_USER : {<<>>, <<"">>, <<"1">>}, PROXY_PASS : {<<>>, <<"">>, <<"1">>}]

\* bool(v) of a getenv result
Truthy(v) == v # <<>> /\ v[1] # ""

\* USE_PROXY = os.getenv("USE_PROXY", "1") == "1"
USE_PROXY(env) == (IF env.USE_PROXY = <<>> THEN "1" ELSE env.USE_PROXY[1]) = "1"

\* get_proxy_dict: {} when proxying is off, ValueError when a setting is
\* missing, else the proxies dict
get_proxy_dict(env) ==
    IF ~USE_PROXY(env) THEN [raised |-> "", proxies |-> "none"]
    ELSE IF ~(Truthy(env.PROXY_HOST) /\ Truthy(env.PROXY_PORT)
              /\ Truthy(env.PROXY_USER) /\ Truthy(env.PROXY_PASS))
    THEN [raised |-> "ValueError", proxies |-> "none"]
    ELSE [raised |-> "", proxies |-> "thordata"]

\* what a request meets: a response with or without a declared encoding, a
\* response with an error status, or a failure of the transport
Wires ==
    {"200 charset=utf-8", "200", "404", "503", "ConnectionError", "ProxyError",
     "ReadTimeout"}

NotFetched == [kind |-> "none", error |-> "", requests |-> 0, encoding |-> ""]

\* fetch_page: the proxies, one requests.get, raise_for_status, the default
\* encoding, resp.text
fetch_page(env, w) ==
    LET p == get_proxy_dict(env)
    IN  IF p.raised # ""
        THEN [kind |-> "Exception", error |-> p.raised, requests |-> 0,
              encoding |-> ""]
        ELSE IF w \in {"ConnectionError", "ProxyError", "ReadTimeout"}
        THEN [kind |-> "RequestException", error |-> w, requests |-> 1,
              encoding |-> ""]
        ELSE IF w \in {"404", "503"}
        THEN [kind |-> "RequestException", error |-> "HTTPError", requests |-> 1,
              encoding |-> ""]
        ELSE [kind |-> "ok", error |-> "", requests |-> 1,
              encoding |-> "utf-8"]

\* the settings of a deployment with the proxy set up
ProxySetUp ==
    [USE_PROXY |-> <<"1">>, PROXY_HOST |-> <<"1">>, PROXY_PORT |-> <<"1">>,
     PROXY_USER |-> <<"1">>, PROXY_PASS |-> <<"1">>]

(***************************************************************************)
(* The heuristics applied to a page text                                   *)
(***************************************************************************)
NotParsed == [variant |-> "none", currency |-> "", price |-> None, price_raw |-> <<>>]

Result(v, r) ==
    [variant |-> v, currency |-> r.currency, price |-> r.price,
     price_raw |-> r.price_raw]

\* the program before main() is entered
NotStarted ==
    /\ pc = "create_tables"
    /\ idx = 1
    /\ cand = 1
    /\ html = NoHtml
    /\ chosen_url = NoUrl
    /\ flight_rows = <<>>
    /\ hotel_rows = <<>>
    /\ rental_rows = <<>>
    /\ flight_prices = <<>>
    /\ hotel_rates = <<>>
    /\ rental_car_prices = <<>>
    /\ scraped_at = 0
    /\ clock = 1
    /\ log = <<>>
    /\ trace = <<>>

\* the first run on a store without tables, with the lists of config.py, on
\* a network where every outcome of a request is possible; no dashboard
FirstRun ==
    /\ config = Configured
    /\ net = FetchOutcomes
    /\ run = 1
    /\ schema = EmptyStore
    /\ alter_error = ""
    /\ txns = <<>>
    /\ view = NoView

\* no call of fetch_page is being looked at
NoRequest ==
    /\ proxy_env = ProxySetUp
    /\ wire = ""
    /\ fetched = NotFetched

ParseInit ==
    /\ full_text \in ShortPages
    /\ parsed = NotParsed
    /\ NotStarted
    /\ FirstRun
    /\ NoRequest

ParseSkyscanner ==
    /\ parsed = NotParsed
    /\ parsed' = Result("A", parse_skyscanner_page(full_text))
    /\ UNCHANGED full_text
    /\ UNCHANGED runVars

ParseOyo ==
    /\ parsed = NotParsed
    /\ parsed' = Result("B", parse_oyo_page(full_text))
    /\ UNCHANGED full_text
    /\ UNCHANGED runVars

ParseGozo ==
    /\ parsed = NotParsed
    /\ parsed' = Result("C", parse_gozo_page(full_text))
    /\ UNCHANGED full_text
    /\ UNCHANGED runVars

MaxExtra == 2

WindowSegments == {Tok300, Tok299, Tok99, TokBad}

Fillers == {Tok4999, Tok100}

RECURSIVE Repeat(_, _)
Repeat(seg, n) == IF n = 0 THEN <<>> ELSE <<seg>> \o Repeat(seg, n - 1)

\* listings of about TOP_N cards with the same rate, with up to MaxExtra
\* other tokens before and after them, and the pages without the cards
WindowPages ==
    {Join(segs) : segs \in SeqsUpTo(WindowSegments, MaxExtra)}
    \cup
    {Join(head \o Repeat(f, n) \o tail) :
        <<head, tail>> \in
            {ht \in SeqsUpTo(WindowSegments, MaxExtra)
                      \X SeqsUpTo(WindowSegments, MaxExtra) :
                Len(ht[1]) + Len(ht[2]) <= MaxExtra},
        f \in Fillers, n \in {TOP_N - 1, TOP_N}}

WindowInit ==
    /\ full_text \in WindowPages
    /\ parsed = NotParsed
    /\ NotStarted
    /\ FirstRun
    /\ NoRequest

ParseNext == ParseSkyscanner \/ ParseOyo \/ ParseGozo

SpecParse == ParseInit /\ [][ParseNext]_vars

SpecWindow == WindowInit /\ [][ParseNext]_vars

(***************************************************************************)
(* The orchestrators                                                       *)
(***************************************************************************)
\* the body of the try appending the snapshot of a target twice
TryTarget_AppendsTwice(target, out, res) ==
    IF out.kind = "ok" /\ out.html.markup_ok
    THEN [rows |-> <<Row(target.code, res, target.url),
                    Row(target.code, res, target.url)>>,
          log |-> <<PriceLine(res, target.code)>>,
          trace |-> <<FetchEvent(target.url, out), SleepEvent>>]
    ELSE [rows |-> <<>>,
          log |-> <<LogLine("skip",
                            IF out.kind = "RequestException" THEN "network"
                            ELSE "unexpected", target.code)>>,
          trace |-> <<FetchEvent(target.url, out)>>]

\* the body of the try of scrape_flight_prices / scrape_rental_car_prices
\* with the except clauses: what one target adds to results, log and trace;
\* res is the result of the orchestrator's parser on the fetched page
TryTarget(target, out, res) ==
    IF out.kind = "ok" /\ out.html.markup_ok
    THEN [rows |-> <<Row(target.code, res, target.url)>>,
          log |-> <<PriceLine(res, target.code)>>,
          trace |-> <<FetchEvent(target.url, out), SleepEvent>>]
    ELSE [rows |-> <<>>,
          log |-> <<LogLine("skip",
                            IF out.kind = "RequestException" THEN "network"
                            ELSE "unexpected", target.code)>>,
          trace |-> <<FetchEvent(target.url, out)>>]

\* the loop of scrape_flight_prices without its except clauses: a failed
\* fetch ends the run
ScrapeFlight_Propagates ==
    /\ pc = "flights"
    /\ idx <= Len(config.FLIGHT_ROUTES)
    /\ \E out \in net :
        LET r == TryTarget(config.FLIGHT_ROUTES[idx], out,
                           parse_skyscanner_page(out.html.text))
        IN  /\ flight_rows' = flight_rows \o r.rows
            /\ log' = IF out.kind = "ok" THEN log \o r.log ELSE log
            /\ trace' = trace \o r.trace
            /\ clock' = clock + Len(r.trace)
            /\ pc' = IF out.kind = "ok" THEN pc ELSE "crashed"
    /\ idx' = idx + 1
    /\ UNCHANGED <<parseVars, envVars, dbVars, fetchVars, cand, html, chosen_url,
                   hotel_rows, rental_rows, flight_prices, hotel_rates,
                   rental_car_prices, scraped_at>>

\* one iteration of the loop of scrape_flight_prices
ScrapeFlight ==
    /\ pc = "flights"
    /\ idx <= Len(config.FLIGHT_ROUTES)
    /\ \E out \in net :
        LET r == TryTarget(config.FLIGHT_ROUTES[idx], out,
                           parse_skyscanner_page(out.html.text))
        IN  /\ flight_rows' = flight_rows \o r.rows
            /\ log' = log \o r.log
            /\ trace' = trace \o r.trace
            /\ clock' = clock + Len(r.trace)
    /\ idx' = idx + 1
    /\ UNCHANGED <<parseVars, envVars, dbVars, fetchVars, pc, cand, html, chosen_url, hotel_rows, rental_rows,
                   flight_prices, hotel_rates, rental_car_prices, scraped_at>>

\* return results
FlightsReturn ==
    /\ pc = "flights"
    /\ idx > Len(config.FLIGHT_ROUTES)
    /\ pc' = "insert_flights"
    /\ UNCHANGED <<parseVars, envVars, dbVars, fetchVars, idx, cand, html, chosen_url, flight_rows, hotel_rows,
                   rental_rows, flight_prices, hotel_rates, rental_car_prices,
                   scraped_at, clock, log, trace>>

\* the loop over candidate_urls recording candidate_urls[0] as the chosen URL
HotelFetch_FirstUrl ==
    /\ pc = "hotels"
    /\ idx <= Len(config.HOTEL_STAYS)
    /\ ~html.fetched
    /\ LET stay == config.HOTEL_STAYS[idx]
           candidate == candidate_urls(stay)[cand]
       IN  IF candidate_urls(stay) = <<>>
           THEN \* candidate_urls[0] in the [INFO] line: IndexError, outside
                \* of every try
                /\ pc' = "crashed"
                /\ UNCHANGED <<cand, html, chosen_url, log, trace, clock>>
           ELSE /\ cand <= Len(candidate_urls(stay))
                /\ pc' = pc
                /\ \E out \in net :
                    /\ trace' = Append(trace, FetchEvent(candidate, out))
                    /\ clock' = clock + 1
                    /\ \/ /\ out.kind = "ok"
                          /\ html' = out.html
                          /\ chosen_url' = candidate_urls(stay)[1]
                          /\ UNCHANGED <<cand, log>>
                       \/ /\ out.kind # "ok"
                          /\ log' = Append(log, LogLine("attempt_failed",
                                               IF out.kind = "RequestException"
                                               THEN "network" ELSE "unexpected",
                                               stay.code))
                          /\ cand' = cand + 1
                          /\ UNCHANGED <<html, chosen_url>>
    /\ UNCHANGED <<parseVars, envVars, dbVars, fetchVars, idx, flight_rows,
                   hotel_rows, rental_rows, flight_prices, hotel_rates,
                   rental_car_prices, scraped_at>>

\* the for loop over candidate_urls: one fetch attempt
HotelFetch ==
    /\ pc = "hotels"
    /\ idx <= Len(config.HOTEL_STAYS)
    /\ ~html.fetched
    /\ LET stay == config.HOTEL_STAYS[idx]
           candidate == candidate_urls(stay)[cand]
       IN  IF candidate_urls(stay) = <<>>
           THEN \* candidate_urls[0] in the [INFO] line: IndexError, outside
                \* of every try
                /\ pc' = "crashed"
                /\ UNCHANGED <<cand, html, chosen_url, log, trace, clock>>
           ELSE /\ cand <= Len(candidate_urls(stay))
                /\ pc' = pc
                /\ \E out \in net :
                    /\ trace' = Append(trace, FetchEvent(candidate, out))
                    /\ clock' = clock + 1
                    /\ \/ /\ out.kind = "ok"
                          /\ html' = out.html
                          /\ chosen_url' = candidate
                          /\ UNCHANGED <<cand, log>>
                       \/ /\ out.kind # "ok"
                          /\ log' = Append(log, LogLine("attempt_failed",
                                               IF out.kind = "RequestException"
                                               THEN "network" ELSE "unexpected",
                                               stay.code))
                          /\ cand' = cand + 1
                          /\ UNCHANGED <<html, chosen_url>>
    /\ UNCHANGED <<parseVars, envVars, dbVars, fetchVars, idx, flight_rows,
                   hotel_rows, rental_rows, flight_prices, hotel_rates,
                   rental_car_prices, scraped_at>>

\* the html is None branch raising instead of logging and continuing
HotelSkip_Raises ==
    /\ pc = "hotels"
    /\ idx <= Len(config.HOTEL_STAYS)
    /\ ~html.fetched
    /\ candidate_urls(config.HOTEL_STAYS[idx]) # <<>>
    /\ cand > Len(candidate_urls(config.HOTEL_STAYS[idx]))
    /\ pc' = "crashed"
    /\ idx' = idx + 1
    /\ cand' = 1
    /\ UNCHANGED <<parseVars, envVars, dbVars, fetchVars, log, html, chosen_url, flight_rows, hotel_rows,
                   rental_rows, flight_prices, hotel_rates, rental_car_prices,
                   scraped_at, clock, trace>>

\* if html is None: ... continue
HotelSkip ==
    /\ pc = "hotels"
    /\ idx <= Len(config.HOTEL_STAYS)
    /\ ~html.fetched
    /\ candidate_urls(config.HOTEL_STAYS[idx]) # <<>>
    /\ cand > Len(candidate_urls(config.HOTEL_STAYS[idx]))
    /\ log' = Append(log, LogLine("skip", "all_failed", config.HOTEL_STAYS[idx].code))
    /\ idx' = idx + 1
    /\ cand' = 1
    /\ UNCHANGED <<parseVars, envVars, dbVars, fetchVars, pc, html, chosen_url, flight_rows, hotel_rows,
                   rental_rows, flight_prices, hotel_rates, rental_car_prices,
                   scraped_at, clock, trace>>

\* parsed = parse_oyo_page(html), for each page the network can answer with
parsed_oyo == [t \in {h.text : h \in Htmls} |-> parse_oyo_page(t)]

\* the try around parse_oyo_page dropping the row when no price was found
HotelParse_SkipsAbsent ==
    /\ pc = "hotels"
    /\ idx <= Len(config.HOTEL_STAYS)
    /\ html.fetched
    /\ LET stay == config.HOTEL_STAYS[idx]
       IN  IF html.markup_ok
           THEN LET p == parsed_oyo[html.text]
                IN  /\ hotel_rows' = IF p.price = None THEN hotel_rows
                                      ELSE Append(hotel_rows, Row(stay.code, p, chosen_url))
                    /\ log' = Append(log, PriceLine(p, stay.code))
                    /\ trace' = Append(trace, SleepEvent)
                    /\ clock' = clock + 1
           ELSE /\ log' = Append(log, LogLine("parse_error", "unexpected", stay.code))
                /\ UNCHANGED <<hotel_rows, trace, clock>>
    /\ idx' = idx + 1
    /\ cand' = 1
    /\ html' = NoHtml
    /\ chosen_url' = NoUrl
    /\ UNCHANGED <<parseVars, envVars, dbVars, fetchVars, pc, flight_rows, rental_rows, flight_prices,
                   hotel_rates, rental_car_prices, scraped_at>>

\* the try around parse_oyo_page, the row and the sleep
HotelParse ==
    /\ pc = "hotels"
    /\ idx <= Len(config.HOTEL_STAYS)
    /\ html.fetched
    /\ LET stay == config.HOTEL_STAYS[idx]
       IN  IF html.markup_ok
           THEN LET p == parsed_oyo[html.text]
                IN  /\ hotel_rows' = Append(hotel_rows, Row(stay.code, p, chosen_url))
                    /\ log' = Append(log, PriceLine(p, stay.code))
                    /\ trace' = Append(trace, SleepEvent)
                    /\ clock' = clock + 1
           ELSE /\ log' = Append(log, LogLine("parse_error", "unexpected", stay.code))
                /\ UNCHANGED <<hotel_rows, trace, clock>>
    /\ idx' = idx + 1
    /\ cand' = 1
    /\ html' = NoHtml
    /\ chosen_url' = NoUrl
    /\ UNCHANGED <<parseVars, envVars, dbVars, fetchVars, pc, flight_rows, rental_rows, flight_prices,
                   hotel_rates, rental_car_prices, scraped_at>>

HotelsReturn ==
    /\ pc = "hotels"
    /\ idx > Len(config.HOTEL_STAYS)
    /\ pc' = "insert_hotels"
    /\ UNCHANGED <<parseVars, envVars, dbVars, fetchVars, idx, cand, html, chosen_url, flight_rows, hotel_rows,
                   rental_rows, flight_prices, hotel_rates, rental_car_prices,
                   scraped_at, clock, log, trace>>

\* one iteration of the loop of scrape_rental_car_prices
ScrapeRental ==
    /\ pc = "rentals"
    /\ idx <= Len(config.RENTAL_CAR_OFFERS)
    /\ \E out \in net :
        LET r == TryTarget(config.RENTAL_CAR_OFFERS[idx], out,
                           parse_gozo_page(out.html.text))
        IN  /\ rental_rows' = rental_rows \o r.rows
            /\ log' = log \o r.log
            /\ trace' = trace \o r.trace
            /\ clock' = clock + Len(r.trace)
    /\ idx' = idx + 1
    /\ UNCHANGED <<parseVars, envVars, dbVars, fetchVars, pc, cand, html, chosen_url, flight_rows, hotel_rows,
                   flight_prices, hotel_rates, rental_car_prices, scraped_at>>

RentalsReturn ==
    /\ pc = "rentals"
    /\ idx > Len(config.RENTAL_CAR_OFFERS)
    /\ pc' = "insert_rentals"
    /\ UNCHANGED <<parseVars, envVars, dbVars, fetchVars, idx, cand, html, chosen_url, flight_rows, hotel_rows,
                   rental_rows, flight_prices, hotel_rates, rental_car_prices,
                   scraped_at, clock, log, trace>>

(***************************************************************************)
(* main() of run_scraper.py and the inserts of db.py                       *)
(***************************************************************************)
\* rows_for_db stamping each row with the time of the insert
rows_for_db_WallClock(rows) ==
    [k \in 1..Len(rows) |->
        [code |-> rows[k].code, currency |-> rows[k].currency,
         price |-> rows[k].price, price_raw |-> rows[k].price_raw,
         url |-> rows[k].url, scraped_at_utc |-> clock]]

\* rows_for_db: each row with the run's scraped_at_utc
rows_for_db(rows) ==
    [k \in 1..Len(rows) |->
        [code |-> rows[k].code, currency |-> rows[k].currency,
         price |-> rows[k].price, price_raw |-> rows[k].price_raw,
         url |-> rows[k].url, scraped_at_utc |-> scraped_at]]

\* insert_* writing the table anew with the rows of the run
insert_Replace(table, rows) == IF rows = <<>> THEN table ELSE rows

\* insert_*: if not rows: return; else one transaction appends the rows
insert(table, rows) == IF rows = <<>> THEN table ELSE table \o rows

\* insert_* executing the INSERT also when rows is empty
executed_Unguarded(t, rows) == <<Txn(t, rows)>>

\* insert_*: the transactions it commits: none when rows is empty, else one
\* with the rows of the call
executed(t, rows) == IF rows = <<>> THEN <<>> ELSE <<Txn(t, rows)>>

\* create_tables_if_not_exists(); an error it raises ends the run
CreateTables ==
    /\ pc = "create_tables"
    /\ LET r == create_tables_if_not_exists(schema, alter_error)
       IN  /\ schema' = r.schema
           /\ pc' = IF r.raised THEN "crashed" ELSE "timestamp"
    /\ UNCHANGED <<parseVars, envVars, txns, fetchVars, idx, cand, html,
                   chosen_url, flight_rows, hotel_rows, rental_rows, flight_prices,
                   hotel_rates, rental_car_prices, scraped_at, clock, log, trace>>

\* scraped_at = datetime.datetime.now(timezone.utc)
TakeTimestamp ==
    /\ pc = "timestamp"
    /\ scraped_at' = clock
    /\ pc' = "flights"
    /\ idx' = 1
    /\ UNCHANGED <<parseVars, envVars, dbVars, fetchVars, cand, html, chosen_url, flight_rows, hotel_rows,
                   rental_rows, flight_prices, hotel_rates, rental_car_prices,
                   clock, log, trace>>

\* main() keeping the flight rows back instead of inserting them now
InsertFlights_Deferred ==
    /\ pc = "insert_flights"
    /\ flight_prices' = flight_prices
    /\ txns' = txns
    /\ pc' = "hotels"
    /\ idx' = 1
    /\ UNCHANGED <<parseVars, envVars, schema, fetchVars, cand, html, chosen_url, flight_rows, hotel_rows,
                   rental_rows, hotel_rates, rental_car_prices, scraped_at, clock,
                   log, trace>>

InsertFlights ==
    /\ pc = "insert_flights"
    /\ flight_prices' = insert(flight_prices, rows_for_db(flight_rows))
    /\ txns' = txns \o executed("flight_prices", rows_for_db(flight_rows))
    /\ pc' = "hotels"
    /\ idx' = 1
    /\ UNCHANGED <<parseVars, envVars, schema, fetchVars, cand, html, chosen_url, flight_rows, hotel_rows,
                   rental_rows, hotel_rates, rental_car_prices, scraped_at, clock,
                   log, trace>>

InsertHotels ==
    /\ pc = "insert_hotels"
    /\ hotel_rates' = insert(hotel_rates, rows_for_db(hotel_rows))
    /\ txns' = txns \o executed("hotel_rates", rows_for_db(hotel_rows))
    /\ pc' = "rentals"
    /\ idx' = 1
    /\ UNCHANGED <<parseVars, envVars, schema, fetchVars, cand, html, chosen_url, flight_rows, hotel_rows,
                   rental_rows, flight_prices, rental_car_prices, scraped_at, clock,
                   log, trace>>

InsertRentals ==
    /\ pc = "insert_rentals"
    /\ rental_car_prices' = insert(rental_car_prices, rows_for_db(rental_rows))
    /\ txns' = txns \o executed("rental_car_prices", rows_for_db(rental_rows))
    /\ pc' = "done"
    /\ UNCHANGED <<parseVars, envVars, schema, fetchVars, idx, cand, html, chosen_url, flight_rows, hotel_rows,
                   rental_rows, flight_prices, hotel_rates, scraped_at, clock, log,
                   trace>>

Init ==
    /\ full_text = <<>>
    /\ parsed = NotParsed
    /\ NotStarted
    /\ FirstRun
    /\ NoRequest

Next ==
    \/ CreateTables
    \/ TakeTimestamp
    \/ ScrapeFlight
    \/ FlightsReturn
    \/ InsertFlights
    \/ HotelFetch
    \/ HotelSkip
    \/ HotelParse
    \/ HotelsReturn
    \/ InsertHotels
    \/ ScrapeRental
    \/ RentalsReturn
    \/ InsertRentals

Spec == Init /\ [][Next]_vars

\* a network on which a request is answered with a priced page, fails, or
\* raises something unexpected
FailingNet ==
    {[kind |-> "ok", html |-> [fetched |-> TRUE, markup_ok |-> TRUE,
                               text |-> PagePriced]],
     [kind |-> "RequestException", html |-> NoHtml],
     [kind |-> "Exception", html |-> NoHtml]}

FairInit ==
    /\ full_text = <<>>
    /\ parsed = NotParsed
    /\ NotStarted
    /\ NoRequest
    /\ config = Configured
    /\ net = FailingNet
    /\ run = 1
    /\ schema = EmptyStore
    /\ alter_error = ""
    /\ txns = <<>>
    /\ view = NoView

\* one run with the scheduling of a sequential program: a step that can be
\* taken is taken
SpecFair == FairInit /\ [][Next]_vars /\ WF_vars(Next)

(***************************************************************************)
(* Runs one after the other on the same store, and the dashboard           *)
(***************************************************************************)
MaxRuns == 2

\* the ticks of the clock from the start of one scheduled run to the next
Period == 12

\* python run_scraper.py once more, after the run before has ended: a new
\* process, the store as it was left
NewRun ==
    /\ pc \in {"done", "crashed"}
    /\ run < MaxRuns
    /\ run' = run + 1
    /\ pc' = "create_tables"
    /\ idx' = 1
    /\ cand' = 1
    /\ html' = NoHtml
    /\ chosen_url' = NoUrl
    /\ flight_rows' = <<>>
    /\ hotel_rows' = <<>>
    /\ rental_rows' = <<>>
    /\ scraped_at' = 0
    /\ clock' = IF clock <= run * Period THEN run * Period + 1 ELSE clock + 1
    /\ log' = <<>>
    /\ trace' = <<>>
    /\ UNCHANGED <<parseVars, config, net, alter_error, view, dbVars, fetchVars,
                   flight_prices, hotel_rates, rental_car_prices>>

\* the loaders of dashboard_app.py: three SELECTs; load_flight_data raises
\* when its table is missing, the other two return an empty frame
DashboardLoad ==
    /\ schema["flight_prices"] # NoTable
    /\ view' = [loaded |-> TRUE,
                flight_prices |-> select_ordered(flight_prices),
                hotel_rates |-> select_ordered(hotel_rates),
                rental_car_prices |-> select_ordered(rental_car_prices)]
    /\ UNCHANGED <<parseVars, config, net, run, alter_error, dbVars, fetchVars,
                   pc, idx, cand, html, chosen_url, flight_rows, hotel_rows,
                   rental_rows, flight_prices, hotel_rates, rental_car_prices,
                   scraped_at, clock, log, trace>>

\* a network on which a request is answered with a priced page or fails
PlainNet ==
    {[kind |-> "ok", html |-> [fetched |-> TRUE, markup_ok |-> TRUE,
                               text |-> PagePriced]],
     [kind |-> "RequestException", html |-> NoHtml]}

RunsInit ==
    /\ full_text = <<>>
    /\ parsed = NotParsed
    /\ NotStarted
    /\ NoRequest
    /\ config = OneOfEach
    /\ net = PlainNet
    /\ run = 1
    /\ schema \in {EmptyStore} \cup OlderStores
    /\ alter_error \in AlterErrors
    /\ txns = <<>>
    /\ view = NoView

RunsNext == Next \/ NewRun \/ DashboardLoad

SpecRuns == RunsInit /\ [][RunsNext]_vars

\* both flight routes, the hotel bucket with its mirrors, one rental offer
TwoFlights ==
    [FLIGHT_ROUTES |-> FLIGHT_ROUTES, HOTEL_STAYS |-> <<HOTEL_STAYS[2]>>,
     RENTAL_CAR_OFFERS |-> <<RENTAL_CAR_OFFERS[1]>>]

\* run after run on a store that starts empty and answers every statement
SeriesInit ==
    /\ full_text = <<>>
    /\ parsed = NotParsed
    /\ NotStarted
    /\ NoRequest
    /\ config = TwoFlights
    /\ net = PlainNet
    /\ run = 1
    /\ schema = EmptyStore
    /\ alter_error = ""
    /\ txns = <<>>
    /\ view = NoView

SeriesNext == Next \/ NewRun

SpecSeries == SeriesInit /\ [][SeriesNext]_vars

\* one run over a configuration that may hold a bucket without mirror URLs
ConfigInit ==
    /\ full_text = <<>>
    /\ parsed = NotParsed
    /\ NotStarted
    /\ NoRequest
    /\ config \in {OneOfEach, EmptyMirrorList}
    /\ net = FetchOutcomes
    /\ run = 1
    /\ schema = EmptyStore
    /\ alter_error = ""
    /\ txns = <<>>
    /\ view = NoView

SpecConfig == ConfigInit /\ [][Next]_vars

(***************************************************************************)
(* One call of fetch_page                                                  *)
(***************************************************************************)
FetchInit ==
    /\ full_text = <<>>
    /\ parsed = NotParsed
    /\ NotStarted
    /\ FirstRun
    /\ proxy_env \in ProxyEnvs
    /\ wire \in Wires
    /\ fetched = NotFetched

FetchPage ==
    /\ fetched = NotFetched
    /\ wire \in Wires
    /\ fetched' = fetch_page(proxy_env, wire)
    /\ UNCHANGED <<parseVars, envVars, dbVars, proxy_env, wire, pc, idx, cand,
                   html, chosen_url, flight_rows, hotel_rows, rental_rows,
                   flight_prices, hotel_rates, rental_car_prices, scraped_at,
                   clock, log, trace>>

FetchNext == FetchPage

SpecFetch == FetchInit /\ [][FetchNext]_vars

(***************************************************************************)
(* Vocabulary of the properties: price tokens of a page text, stated by    *)
(* position and independently of the scanning order of the heuristics      *)
(***************************************************************************)
\* a price token is a currency marker, optional whitespace, then a maximal
\* non-empty run of digits and separators
IsSep(c) == c = ","

\* where the whitespace after the marker at i ends
GroupFrom(t, i) ==
    CHOOSE g \in (i + 1)..(Len(t) + 1) :
        /\ \A k \in (i + 1)..(g - 1) : t[k] = " "
        /\ g > Len(t) \/ t[g] # " "

\* where the run of digits and separators that starts at g ends (g - 1: no run)
GroupTo(t, g) ==
    CHOOSE e \in (g - 1)..Len(t) :
        /\ \A k \in g..e : IsDigit(t[k]) \/ IsSep(t[k])
        /\ e = Len(t) \/ ~(IsDigit(t[e + 1]) \/ IsSep(t[e + 1]))

IsToken(t, i) ==
    /\ t[i] = Marker
    /\ GroupTo(t, GroupFrom(t, i)) >= GroupFrom(t, i)

TokenStarts(t) == {i \in 1..Len(t) : IsToken(t, i)}

TokenGroup(t, i) == SubSeq(t, GroupFrom(t, i), GroupTo(t, GroupFrom(t, i)))

\* the token as displayed on the page, marker included
TokenDisplay(t, i) == SubSeq(t, i, GroupTo(t, GroupFrom(t, i)))

HasDigit(g) == \E k \in 1..Len(g) : IsDigit(g[k])

RECURSIVE ValueOf(_)
\* the digit group read in base 10, separators skipped
ValueOf(g) ==
    IF g = <<>> THEN 0
    ELSE IF IsSep(g[Len(g)]) THEN ValueOf(SubSeq(g, 1, Len(g) - 1))
    ELSE 10 * ValueOf(SubSeq(g, 1, Len(g) - 1)) + DigitVal(g[Len(g)])

\* the tokens that have a numeric value
ParseableStarts(t) == {i \in TokenStarts(t) : HasDigit(TokenGroup(t, i))}

TokenValue(t, i) == ValueOf(TokenGroup(t, i))

TokenValues(t) == {TokenValue(t, i) : i \in ParseableStarts(t)}

SetMin(S) == CHOOSE x \in S : \A y \in S : x <= y

MinOrNone(S) == IF S = {} THEN None ELSE SetMin(S)

\* the label occurs at i, in any letter case
LabelOccurs(t, i) ==
    /\ i + 12 <= Len(t)
    /\ \A k \in 1..13 : t[i + k - 1] \in {SegLabel[k], SegLabelUpper[k], LabelPattern[k]}

\* the positions of the currency markers after the label that starts at i
MarkersAfter(t, i) == {j \in (i + 13)..Len(t) : t[j] = Marker}

\* the label occurrences whose next currency marker starts a price token
LabelsWithToken(t) ==
    {i \in 1..Len(t) : /\ LabelOccurs(t, i)
                       /\ MarkersAfter(t, i) # {}
                       /\ IsToken(t, SetMin(MarkersAfter(t, i)))}

\* the first price token after the label that starts at i
TokenAfter(t, i) == SetMin(MarkersAfter(t, i))

\* the label occurrences whose next currency marker is followed by a
\* parseable digit group
LabelsWithPrice(t) ==
    {i \in LabelsWithToken(t) : HasDigit(TokenGroup(t, TokenAfter(t, i)))}

(***************************************************************************)
(* Properties of the extraction heuristics (SpecParse)                     *)
(***************************************************************************)
\* C1 as stated: in Variant A, when the page holds a label occurrence whose
\* next currency marker is followed by a parseable digit group, the price is
\* the value of the first price token after that label (the leftmost such
\* label), whatever other tokens the page holds.
C1_AnyLabelWithPriceWins ==
    (parsed.variant = "A" /\ LabelsWithPrice(full_text) # {}) =>
        parsed.price =
            TokenValue(full_text, TokenAfter(full_text, SetMin(LabelsWithPrice(full_text))))

\* C1 amended: in Variant A, the leftmost label occurrence whose next currency
\* marker starts a price token decides; when the digit group of that token is
\* parseable the price is its value, whatever smaller or larger tokens occur
\* elsewhere on the page.
C1_LabelledPriceWins ==
    (/\ parsed.variant = "A"
     /\ LabelsWithToken(full_text) # {}
     /\ SetMin(LabelsWithToken(full_text)) \in LabelsWithPrice(full_text)) =>
        parsed.price =
            TokenValue(full_text, TokenAfter(full_text, SetMin(LabelsWithToken(full_text))))

\* C1 witness: the labelled price was returned although the page holds both a
\* smaller and a larger price token, in a page whose label is not in the
\* pattern's letter case.
C1_Witness ==
    /\ parsed.variant = "A"
    /\ LabelsWithToken(full_text) # {}
    /\ SetMin(LabelsWithToken(full_text)) \in LabelsWithPrice(full_text)
    /\ ~LabelAt(full_text, SetMin(LabelsWithToken(full_text)))
           \/ SubSeq(full_text, SetMin(LabelsWithToken(full_text)),
                     SetMin(LabelsWithToken(full_text)) + 12) = SegLabelUpper
    /\ \E lo, hi \in TokenValues(full_text) : lo < parsed.price /\ parsed.price < hi

\* C2: in Variant A, when no labelled match is found, or the digit group of
\* the labelled match does not parse, the price is the minimum value among all
\* parseable price tokens of the page, and absent when there is none.
C2_FallbackIsGlobalMin ==
    (/\ parsed.variant = "A"
     /\ \/ LabelsWithToken(full_text) = {}
        \/ SetMin(LabelsWithToken(full_text)) \notin LabelsWithPrice(full_text)) =>
        parsed.price = MinOrNone(TokenValues(full_text))

\* C2 witness: the labelled match was found with an unparseable digit group
\* and the minimum of several different token values was returned.
C2_Witness ==
    /\ parsed.variant = "A"
    /\ LabelsWithToken(full_text) # {}
    /\ SetMin(LabelsWithToken(full_text)) \notin LabelsWithPrice(full_text)
    /\ Cardinality(TokenValues(full_text)) >= 2
    /\ parsed.price = SetMin(TokenValues(full_text))

\* C5: in Variant C, over the values of all price tokens of the page (no
\* positional window; a token is one whose digit group has a value), the
\* price is the minimum of the values that are at least 100 (100 itself is
\* kept); when every value is below 100 it is the minimum of all values; it
\* is absent only when there is no value at all.
C5_GozoFloorMin ==
    parsed.variant = "C" =>
        LET V == TokenValues(full_text)
            F == {v \in V : v >= 100}
        IN  /\ F # {} => parsed.price = SetMin(F)
            /\ (F = {} /\ V # {}) => parsed.price = SetMin(V)
            /\ parsed.price = None <=> V = {}

\* C5 witness: a token below 100 was discarded and the token equal to 100 was
\* returned although it is not the last token of the page.
C5_Witness ==
    /\ parsed.variant = "C"
    /\ 99 \in TokenValues(full_text)
    /\ parsed.price = 100
    /\ \E i \in ParseableStarts(full_text), j \in ParseableStarts(full_text) :
           i < j /\ TokenValue(full_text, i) = 100 /\ TokenValue(full_text, j) > 100

\* C5 witness of the fallback: every token was below 100 and the minimum of
\* the unfiltered values was returned.
C5_FallbackReached ==
    /\ parsed.variant = "C"
    /\ TokenValues(full_text) = {99}
    /\ parsed.price = 99

\* C6: in all three variants a page without any price token yields a result
\* with the price absent, and every result whose price is absent has an empty
\* price_raw and the currency "INR", also when the label matched a digit
\* group that does not parse and the page holds no other token.
C6_AbsentPriceShape ==
    parsed.variant # "none" =>
        /\ TokenStarts(full_text) = {} => parsed.price = None
        /\ parsed.price = None =>
               (parsed.price_raw = <<>> /\ parsed.currency = "INR")

\* C6 witness: Variant A matched the label with an unparseable digit group on
\* a page without another token and returned an absent price.
C6_Witness ==
    /\ parsed.variant = "A"
    /\ full_text = SegLabelBad
    /\ parsed.price = None
    /\ parsed.price_raw = <<>>

\* C7: the returned price is the value of a price token of the page and the
\* returned price_raw is that token's display string as found on the page
\* (marker, whitespace and digit group as written), in all three variants.
C7_RawIsDisplayString ==
    (parsed.variant # "none" /\ parsed.price # None) =>
        \E i \in ParseableStarts(full_text) :
            /\ TokenValue(full_text, i) = parsed.price
            /\ TokenDisplay(full_text, i) = parsed.price_raw

(***************************************************************************)
(* Properties of the top-N window (SpecWindow)                             *)
(***************************************************************************)
\* the end of the n-th token (in document order) among the token starts S
EndOfNth(t, S, n) ==
    LET i == CHOOSE i \in S : Cardinality({j \in S : j < i}) = n - 1
    IN  GroupTo(t, GroupFrom(t, i))

\* the text with everything after the n-th token of S removed
CutAfter(t, S, n) ==
    IF Cardinality(S) <= n THEN t ELSE SubSeq(t, 1, EndOfNth(t, S, n))

\* C3: in Variant B the price depends only on the first 20 price tokens in
\* document order (a token is one whose digit group has a value): the page
\* cut after its 20th token yields the same price, so changing, adding or
\* removing tokens at positions 21 and beyond never changes the price.
C3_First20ParseableDecide ==
    parsed.variant = "B" =>
        parsed.price =
            parse_oyo_page(CutAfter(full_text, ParseableStarts(full_text), 20)).price

\* C3 witness: a 21st token of at least 300 and smaller than each of the
\* first 20 was ignored.
C3_Witness ==
    /\ parsed.variant = "B"
    /\ Cardinality(ParseableStarts(full_text)) > 20
    /\ \E v \in TokenValues(full_text) : v >= 300 /\ v < parsed.price
    /\ parsed.price # None

\* the parseable tokens that are among the first 20 in document order
First20(t) ==
    {i \in ParseableStarts(t) : Cardinality({j \in ParseableStarts(t) : j < i}) < 20}

\* C4: in Variant B, among the values of the first 20 tokens, those below 300
\* are discarded (300 itself is kept) and the price is the minimum of the
\* rest; when all of them are below 300 the price is the minimum of those
\* same tokens; the price is absent only when the top-N set is empty.
C4_OyoFloorMin ==
    parsed.variant = "B" =>
        LET W == {TokenValue(full_text, i) : i \in First20(full_text)}
            F == {v \in W : v >= 300}
        IN  /\ F # {} => parsed.price = SetMin(F)
            /\ (F = {} /\ W # {}) => parsed.price = SetMin(W)
            /\ parsed.price = None <=> W = {}

\* C4 witness: 20 tokens below 300 were followed by a smaller token, and the
\* minimum of the first 20 was returned.
C4_Witness ==
    /\ parsed.variant = "B"
    /\ Cardinality(ParseableStarts(full_text)) > 20
    /\ \A i \in First20(full_text) : TokenValue(full_text, i) < 300
    /\ parsed.price = SetMin({TokenValue(full_text, i) : i \in First20(full_text)})
    /\ \E v \in TokenValues(full_text) : v < parsed.price

\* C4 witness of the floor: a token of 299 was discarded and one of 300 kept.
C4_FloorReached ==
    /\ parsed.variant = "B"
    /\ 299 \in {TokenValue(full_text, i) : i \in First20(full_text)}
    /\ parsed.price = 300

(***************************************************************************)
(* Properties of the orchestrators (Spec)                                  *)
(***************************************************************************)
Categories == {"flights", "hotels", "rentals"}

Targets(cat) ==
    CASE cat = "flights" -> config.FLIGHT_ROUTES
      [] cat = "hotels" -> config.HOTEL_STAYS
      [] cat = "rentals" -> config.RENTAL_CAR_OFFERS

\* the candidate URLs of the k-th target of a category, in configuration order
Candidates(cat, k) ==
    IF cat = "hotels" THEN candidate_urls(Targets(cat)[k]) ELSE <<Targets(cat)[k].url>>

Snapshots(cat) ==
    CASE cat = "flights" -> flight_rows
      [] cat = "hotels" -> hotel_rows
      [] cat = "rentals" -> rental_rows

\* how far main() has come
Phase ==
    CASE pc \in {"create_tables", "timestamp"} -> 0
      [] pc = "flights" -> 1
      [] pc = "insert_flights" -> 2
      [] pc = "hotels" -> 3
      [] pc = "insert_hotels" -> 4
      [] pc = "rentals" -> 5
      [] pc = "insert_rentals" -> 6
      [] pc = "done" -> 7
      [] OTHER -> 0

ScrapePhase(cat) ==
    CASE cat = "flights" -> 1 [] cat = "hotels" -> 3 [] cat = "rentals" -> 5

\* the orchestrator has finished with the k-th target of the category
Processed(cat, k) ==
    \/ Phase > ScrapePhase(cat)
    \/ pc = cat /\ k < idx

\* the requests issued for the target, in order
FetchesOf(cat, k) ==
    LET C == SeqRange(Candidates(cat, k))
    IN  SelectSeq(trace, LAMBDA e : e.ev = "fetch" /\ e.url \in C)

SnapshotsOf(cat, k) ==
    LET c == Targets(cat)[k].code
    IN  SelectSeq(Snapshots(cat), LAMBDA r : r.code = c)

LinesOf(cat, k, kinds) ==
    LET c == Targets(cat)[k].code
    IN  SelectSeq(log, LAMBDA l : l.code = c /\ l.kind \in kinds)

\* some candidate of the target was fetched successfully
Succeeded(cat, k) ==
    LET F == FetchesOf(cat, k)
    IN  \E j \in 1..Len(F) : F[j].result = "ok"

\* every candidate of the target was tried and failed
AllFailed(cat, k) ==
    LET F == FetchesOf(cat, k)
    IN  /\ Len(F) = Len(Candidates(cat, k))
        /\ \A j \in 1..Len(F) : F[j].result # "ok"

\* an unexpected error was raised after the fetch had succeeded (the warning
\* "Error parsing hotel", or "Skipping ... due to unexpected error")
RaisedAfterFetch(cat, k) ==
    /\ Succeeded(cat, k)
    /\ LET L == LinesOf(cat, k, {"parse_error", "skip"})
       IN  \E j \in 1..Len(L) : L[j].cause = "unexpected"

\* the candidates of a hotel target are fetched in configuration order, each
\* at most once, and none after the first success
MirrorOrder(k) ==
    LET F == FetchesOf("hotels", k)
        C == Candidates("hotels", k)
    IN  /\ Len(F) <= Len(C)
        /\ \A j \in 1..Len(F) : F[j].url = C[j]
        /\ \A j \in 1..(Len(F) - 1) : F[j].result # "ok"

\* C8 as stated: for every hotel target the candidates are fetched strictly in
\* configuration order, each at most once, none after the first success, and
\* a target with a successful candidate has exactly one snapshot whose url is
\* that candidate.
C8_MirrorFallbackOneSnapshot ==
    \A k \in 1..Len(HOTEL_STAYS) :
        /\ MirrorOrder(k)
        /\ (Processed("hotels", k) /\ Succeeded("hotels", k)) =>
            LET F == FetchesOf("hotels", k)
                S == SnapshotsOf("hotels", k)
            IN  Len(S) = 1 /\ S[1].url = F[Len(F)].url

\* C8 amended: the candidates are fetched strictly in configuration order,
\* each at most once, none after the first success; a target with a
\* successful candidate has at most one snapshot, exactly one unless an
\* unexpected error was raised while its page was parsed, and the url of the
\* snapshot is the first successful candidate.
C8_MirrorFallback ==
    \A k \in 1..Len(HOTEL_STAYS) :
        /\ MirrorOrder(k)
        /\ (Processed("hotels", k) /\ Succeeded("hotels", k)) =>
            LET F == FetchesOf("hotels", k)
                S == SnapshotsOf("hotels", k)
            IN  /\ Len(S) <= 1
                /\ Len(S) = 0 <=> RaisedAfterFetch("hotels", k)
                /\ \A j \in 1..Len(S) : S[j].url = F[Len(F)].url

\* C8 witness: the first two of three candidates failed, the third was fetched
\* and the one snapshot of the target carries the third URL.
C8_Witness ==
    /\ Processed("hotels", 2)
    /\ Len(FetchesOf("hotels", 2)) = 3
    /\ FetchesOf("hotels", 2)[1].result = "RequestException"
    /\ FetchesOf("hotels", 2)[2].result = "RequestException"
    /\ FetchesOf("hotels", 2)[3].result = "ok"
    /\ Len(SnapshotsOf("hotels", 2)) = 1
    /\ SnapshotsOf("hotels", 2)[1].url = Candidates("hotels", 2)[3]

\* C9: in every orchestrator a target whose every candidate URL failed to
\* fetch has no snapshot and exactly one skip line in the log, the failure is
\* not raised to the caller, and the following targets are still attempted:
\* when the run is done every target has been attempted.
C9_AllFailedIsSkipped ==
    /\ pc # "crashed"
    /\ \A cat \in Categories : \A k \in 1..Len(Targets(cat)) :
        /\ (Processed(cat, k) /\ AllFailed(cat, k)) =>
            /\ SnapshotsOf(cat, k) = <<>>
            /\ Len(LinesOf(cat, k, {"skip"})) = 1
        /\ Processed(cat, k) => FetchesOf(cat, k) # <<>>
    /\ pc = "done" =>
        \A cat \in Categories : \A k \in 1..Len(Targets(cat)) : Processed(cat, k)

\* C9 witness: all three candidates of a hotel target failed, so did the
\* first flight, and the run went on to the end with a snapshot of the second
\* flight.
C9_Witness ==
    /\ pc = "done"
    /\ AllFailed("hotels", 2)
    /\ AllFailed("flights", 1)
    /\ SnapshotsOf("hotels", 2) = <<>>
    /\ Len(SnapshotsOf("flights", 2)) = 1

\* C10 as stated: in every orchestrator a target whose fetch succeeded has
\* exactly one snapshot, and a target without a snapshot is one whose every
\* candidate failed to fetch.
C10_FetchedIsRecorded ==
    \A cat \in Categories : \A k \in 1..Len(Targets(cat)) :
        Processed(cat, k) =>
            /\ Succeeded(cat, k) => Len(SnapshotsOf(cat, k)) = 1
            /\ SnapshotsOf(cat, k) = <<>> => AllFailed(cat, k)

\* C10 amended: in every orchestrator a target whose fetch succeeded has
\* exactly one snapshot, also when the price is absent, unless an unexpected
\* error was raised while its page was parsed; a target without a snapshot is
\* one whose every candidate failed to fetch or one that raised such an error.
C10_FetchedIsRecordedUnlessRaised ==
    \A cat \in Categories : \A k \in 1..Len(Targets(cat)) :
        Processed(cat, k) =>
            /\ (Succeeded(cat, k) /\ ~RaisedAfterFetch(cat, k)) =>
                   Len(SnapshotsOf(cat, k)) = 1
            /\ SnapshotsOf(cat, k) = <<>> =>
                   (AllFailed(cat, k) \/ RaisedAfterFetch(cat, k))
            /\ Len(SnapshotsOf(cat, k)) <= 1

\* C10 witness: every orchestrator has recorded a snapshot with an absent
\* price.
C10_Witness ==
    \A cat \in Categories :
        /\ Processed(cat, 1)
        /\ Len(SnapshotsOf(cat, 1)) = 1
        /\ SnapshotsOf(cat, 1)[1].price = None

(***************************************************************************)
(* Failure isolation, the run timestamp and completion                     *)
(***************************************************************************)
\* the lines of the log that name the k-th target of the category
LoggedFor(cat, k) ==
    LinesOf(cat, k, {"skip", "attempt_failed", "parse_error", "ok", "no_price"})

\* the run has gone through every target of every category
AllProcessed ==
    \A cat \in Categories : \A k \in 1..Len(Targets(cat)) : Processed(cat, k)

\* C11: in each orchestrator an exception raised while a target is processed
\* (URL resolution and building, fetch, parse, record assembly) is caught at
\* the target's boundary and logged with the target's code, and the targets
\* after it are still processed: the run never ends on a raised exception,
\* every target it is done with has a snapshot or a log line with its code,
\* and a run that has ended has processed every target.
C11_FailureIsolated ==
    /\ pc # "crashed"
    /\ \A cat \in Categories : \A k \in 1..Len(Targets(cat)) :
        Processed(cat, k) =>
            (SnapshotsOf(cat, k) # <<>> \/ LoggedFor(cat, k) # <<>>)
    /\ pc = "done" => AllProcessed

\* the rows the three tables hold
StoredRows == flight_prices \o hotel_rates \o rental_car_prices

NumTargets ==
    Len(config.FLIGHT_ROUTES) + Len(config.HOTEL_STAYS)
    + Len(config.RENTAL_CAR_OFFERS)

\* every request of the run was answered with a page
EveryFetchSucceeded ==
    \A j \in 1..Len(trace) : trace[j].ev = "fetch" => trace[j].result = "ok"

\* no unexpected error was raised in the run
NothingUnexpected == \A j \in 1..Len(log) : log[j].cause # "unexpected"

\* every row in the store carries the timestamp main() took
SharedTimestamp ==
    \A j \in 1..Len(StoredRows) : StoredRows[j].scraped_at_utc = scraped_at

\* C12 as stated: a run in which every fetch succeeded has inserted exactly
\* N+M+K rows, and in any run every inserted row carries the one timestamp
\* of the run.
C12_AllFetchedAllStored ==
    /\ SharedTimestamp
    /\ (pc = "done" /\ EveryFetchSucceeded) => Len(StoredRows) = NumTargets

\* C12 amended: a run in which every fetch succeeded and no page raised an
\* unexpected error while it was parsed has inserted exactly N+M+K rows; in
\* any run every inserted row carries the one timestamp of the run, and the
\* run inserts at most N+M+K rows.
C12_AllParsedAllStored ==
    /\ SharedTimestamp
    /\ Len(StoredRows) <= NumTargets
    /\ (pc = "done" /\ EveryFetchSucceeded /\ NothingUnexpected) =>
           Len(StoredRows) = NumTargets

\* C12 witness: a finished run in which every fetch succeeded and every page
\* parsed, with a row for each target, all stamped before the first request.
C12_Witness ==
    /\ pc = "done"
    /\ EveryFetchSucceeded
    /\ NothingUnexpected
    /\ Len(StoredRows) = NumTargets
    /\ NumTargets > 3
    /\ SharedTimestamp
    /\ clock > scraped_at + NumTargets

\* the position in the configuration of the target a request belongs to:
\* categories in the order of main(), targets in list order
TargetNo(url) ==
    LET nf == Len(config.FLIGHT_ROUTES)
        nh == Len(config.HOTEL_STAYS)
    IN  IF \E k \in 1..nf : config.FLIGHT_ROUTES[k].url = url
        THEN CHOOSE k \in 1..nf : config.FLIGHT_ROUTES[k].url = url
        ELSE IF \E k \in 1..nh : url \in SeqRange(Candidates("hotels", k))
        THEN nf + (CHOOSE k \in 1..nh : url \in SeqRange(Candidates("hotels", k)))
        ELSE nf + nh + (CHOOSE k \in 1..Len(config.RENTAL_CAR_OFFERS) :
                            config.RENTAL_CAR_OFFERS[k].url = url)

\* the requests of the run, in the order they were issued
Requests == SelectSeq(trace, LAMBDA e : e.ev = "fetch")

\* the requests were issued target after target in configuration order: no
\* request of a target after a request of a later one, every target was
\* requested, no URL twice
OneTargetAfterTheOther ==
    LET R == Requests
    IN  /\ \A i \in 1..(Len(R) - 1) : TargetNo(R[i].url) <= TargetNo(R[i + 1].url)
        /\ \A i, j \in 1..Len(R) : R[i].url = R[j].url => i = j
        /\ {TargetNo(R[i].url) : i \in 1..Len(R)} = 1..NumTargets

\* C13: with the store reachable the run always comes to its end, whatever
\* fetches fail, and at its end every configured target of the three
\* categories has been processed exactly once, one after the other.
C13_RunCompletes ==
    <>(pc = "done" /\ AllProcessed /\ OneTargetAfterTheOther)

\* C13 witness: the run has ended although every request of the first flight
\* and of the first rental offer failed and the mirrors of a bucket failed.
C13_Witness ==
    /\ pc = "done"
    /\ AllFailed("flights", 1)
    /\ AllFailed("rentals", 1)
    /\ AllFailed("hotels", 2)
    /\ AllProcessed
    /\ OneTargetAfterTheOther

\* a table has a column
HasColumn(sch, t, c) == \E k \in 1..Len(sch[t]) : sch[t][k] = c

\* the three tables exist and rental_car_prices has the two added columns
Migrated(sch) ==
    /\ \A t \in Tables : sch[t] # NoTable
    /\ HasColumn(sch, "rental_car_prices", "route_name")
    /\ HasColumn(sch, "rental_car_prices", "travel_date")

\* C14: create_tables_if_not_exists is idempotent. When a call returns, the
\* three tables exist with the two added columns and a second call right
\* after it raises nothing and leaves every table as it is; on a store that
\* already has the tables and the columns the call changes nothing (the
\* duplicate column is not an error); the call raises exactly when the store
\* answers an ALTER with another error.
C14_CreateTablesIdempotent ==
    [][(pc = "create_tables" /\ pc' # "create_tables") =>
        LET again == create_tables_if_not_exists(schema', alter_error)
        IN  /\ pc' \in {"timestamp", "crashed"}
            /\ (pc' = "crashed") <=> (alter_error # "")
            /\ pc' = "timestamp" =>
                   /\ Migrated(schema')
                   /\ ~again.raised
                   /\ again.schema = schema'
            /\ Migrated(schema) /\ alter_error = "" => schema' = schema
            /\ \A t \in Tables : schema[t] # NoTable =>
                   \A k \in 1..Len(schema[t]) : HasColumn(schema', t, schema[t][k])
      ]_vars

\* C14 witness: the second run has called create_tables_if_not_exists on the
\* store the first run left with the tables and both columns, and went on.
C14_Witness ==
    /\ run = 2
    /\ pc = "timestamp"
    /\ alter_error = ""
    /\ Migrated(schema)
    /\ flight_prices # <<>>

\* s is the beginning of t: every row of s is in t, at its place, unchanged
IsPrefix(s, t) == Len(s) <= Len(t) /\ SubSeq(t, 1, Len(s)) = s

\* C15: the stored snapshots are append-only. No step of a run, of a later
\* run or of a dashboard read removes or changes a row of flight_prices,
\* hotel_rates or rental_car_prices: each table begins with the rows it held.
C15_AppendOnly ==
    [][/\ IsPrefix(flight_prices, flight_prices')
       /\ IsPrefix(hotel_rates, hotel_rates')
       /\ IsPrefix(rental_car_prices, rental_car_prices')]_vars

\* C15 witness: two runs have inserted and the dashboard has read; the rows
\* of the first run are still there under those of the second.
C15_Witness ==
    /\ run = 2
    /\ pc = "done"
    /\ view.loaded
    /\ Len(flight_prices) = 2
    /\ Len(rental_car_prices) = 2
    /\ Len(hotel_rates) = 2
    /\ flight_prices[1].scraped_at_utc < flight_prices[2].scraped_at_utc
    /\ view.flight_prices = <<flight_prices[1]>>

\* a lookahead window that holds the whitespace between the label and the
\* price, and not a further text node
LookaheadWindow == Len(SegText)

\* the label occurrences whose next price token starts within the window
\* after the label
LabelsInWindow(t) ==
    {i \in LabelsWithToken(t) : TokenAfter(t, i) - (i + 13) <= LookaheadWindow}

\* C16: Variant A takes a labelled match only when the currency marker and
\* the digit group lie within a bounded lookahead window after the label: on
\* a page where no label has its price token within the window the price is
\* the fallback minimum over all price tokens.
C16_LabelWithinWindow ==
    (parsed.variant = "A" /\ LabelsInWindow(full_text) = {}) =>
        parsed.price = MinOrNone(TokenValues(full_text))

\* an unexpected (non-network) error was logged for the target
UnexpectedFor(cat, k) ==
    \E j \in 1..Len(log) :
        log[j].code = Targets(cat)[k].code /\ log[j].cause = "unexpected"

\* C17: an unexpected error raised while a target is processed, the fetch of
\* a candidate URL included, is logged and the target is skipped: the target
\* has no snapshot, and the request that raised is the last request of the
\* target (no further candidate is attempted).
C17_UnexpectedErrorSkipsTarget ==
    \A cat \in Categories : \A k \in 1..Len(Targets(cat)) :
        LET F == FetchesOf(cat, k)
        IN  /\ UnexpectedFor(cat, k) => SnapshotsOf(cat, k) = <<>>
            /\ \A j \in 1..Len(F) :
                   F[j].result = "Exception" =>
                       /\ j = Len(F)
                       /\ UnexpectedFor(cat, k)

\* C18: fetch_page returns the page text or raises a network-class error
\* (transport failure, HTTP error status, timeout), under every setting of
\* the proxy variables, and it issues its request once, without a retry.
C18_FetchFailsOnlyWithNetworkError ==
    fetched # NotFetched =>
        /\ fetched.kind \in {"ok", "RequestException"}
        /\ fetched.kind = "RequestException" =>
               fetched.error \in {"ConnectionError", "ProxyError", "ReadTimeout",
                                  "HTTPError"}
        /\ fetched.requests = 1

\* the orchestrator a request belongs to
CategoryOf(url) ==
    IF TargetNo(url) <= Len(config.FLIGHT_ROUTES) THEN "flights"
    ELSE IF TargetNo(url) <= Len(config.FLIGHT_ROUTES) + Len(config.HOTEL_STAYS)
    THEN "hotels"
    ELSE "rentals"

\* C19: in every orchestrator a sleep lies between the end of a target and
\* the first request of the next one, whether the target gave a snapshot or
\* was skipped: two requests issued one right after the other, with no sleep
\* between them, are requests of the same target (its mirrors) or of
\* different orchestrators.
C19_SleepBetweenTargets ==
    \A i \in 1..(Len(trace) - 1) :
        (/\ trace[i].ev = "fetch"
         /\ trace[i + 1].ev = "fetch"
         /\ CategoryOf(trace[i].url) = CategoryOf(trace[i + 1].url)) =>
            TargetNo(trace[i].url) = TargetNo(trace[i + 1].url)

\* the target codes whose rows belong into a table
CodesOf(t) ==
    LET targets == CASE t = "flight_prices" -> config.FLIGHT_ROUTES
                     [] t = "hotel_rates" -> config.HOTEL_STAYS
                     [] t = "rental_car_prices" -> config.RENTAL_CAR_OFFERS
    IN  {targets[k].code : k \in 1..Len(targets)}

\* the content of a table
TableRows(t) ==
    CASE t = "flight_prices" -> flight_prices
      [] t = "hotel_rates" -> hotel_rates
      [] t = "rental_car_prices" -> rental_car_prices

RECURSIVE RowsWritten(_, _)
\* the rows the first n committed transactions wrote to table t, in order
RowsWritten(t, n) ==
    IF n = 0 THEN <<>>
    ELSE RowsWritten(t, n - 1) \o (IF txns[n].table = t THEN txns[n].rows ELSE <<>>)

\* C20: each category's rows are written by a transaction of their own: a
\* committed transaction holds rows of the one category of its table and is
\* never empty (an insert called with zero rows commits nothing), a run
\* commits at most one transaction per table, and a table holds exactly the
\* rows its transactions wrote, so a run whose targets of a category were
\* all skipped leaves that table as it was.
C20_InsertPerCategory ==
    /\ \A n \in 1..Len(txns) :
          /\ txns[n].rows # <<>>
          /\ \A j \in 1..Len(txns[n].rows) :
                 txns[n].rows[j].code \in CodesOf(txns[n].table)
    /\ \A t \in Tables :
          /\ TableRows(t) = RowsWritten(t, Len(txns))
          /\ Cardinality({n \in 1..Len(txns) : txns[n].table = t}) <= run

\* C20 witness: a run has ended in which every mirror of the hotel bucket
\* failed: two transactions were committed, one with the flight row and one
\* with the rental row, and hotel_rates was not written.
C20_Witness ==
    /\ pc = "done"
    /\ run = 1
    /\ AllFailed("hotels", 1)
    /\ hotel_rates = <<>>
    /\ Len(txns) = 2
    /\ txns[1].table = "flight_prices"
    /\ txns[2].table = "rental_car_prices"

\* the place of a target code in the configuration list of its category
PlaceOf(cat, code) ==
    CHOOSE k \in 1..Len(Targets(cat)) : Targets(cat)[k].code = code

\* no two rows of the sequence have the same target code and timestamp
KeysDistinct(rows) ==
    \A i, j \in 1..Len(rows) :
        (rows[i].code = rows[j].code
         /\ rows[i].scraped_at_utc = rows[j].scraped_at_utc) => i = j

\* C21: with target codes unique within their category and the timestamp of
\* a run later than that of the run before it, no table ever holds two rows
\* with the same (target code, scraped_at_utc); the snapshots of a run follow
\* the configuration order, at most one for a target.
C21_KeyUnique ==
    /\ \A t \in Tables : KeysDistinct(TableRows(t))
    /\ \A cat \in Categories :
          \A i, j \in 1..Len(Snapshots(cat)) :
              i < j => PlaceOf(cat, Snapshots(cat)[i].code)
                           < PlaceOf(cat, Snapshots(cat)[j].code)

\* C21 witness: two runs have stored a snapshot of each target; each code
\* is in its table twice, under the two timestamps.
C21_Witness ==
    /\ run = 2
    /\ pc = "done"
    /\ Len(flight_prices) = 4
    /\ Len(hotel_rates) = 2
    /\ Len(rental_car_prices) = 2
    /\ flight_prices[1].code = flight_prices[3].code
    /\ flight_prices[1].scraped_at_utc < flight_prices[3].scraped_at_utc
    /\ hotel_rates[1].code = hotel_rates[2].code

\* the rows of the category scraped in this run are in its table, which
\* held nothing before the run
StoredOf(cat) ==
    CASE cat = "flights" -> flight_prices = rows_for_db(flight_rows)
      [] cat = "hotels" -> hotel_rates = rows_for_db(hotel_rows)
      [] cat = "rentals" -> rental_car_prices = rows_for_db(rental_rows)

\* C22: scraping and persisting are interleaved per category. While the
\* hotel orchestrator runs (from before its first request on) the flight
\* rows of the run are stored, while the rental orchestrator runs the hotel
\* rows are stored too, and a step that ends the run on an unhandled error
\* leaves the three tables as they are: the rows of the earlier categories
\* stay stored.
C22_PersistedPerCategory ==
    [][/\ pc = "hotels" =>
            /\ StoredOf("flights")
            /\ flight_prices' = flight_prices
       /\ pc = "rentals" =>
            /\ StoredOf("flights") /\ StoredOf("hotels")
            /\ flight_prices' = flight_prices
            /\ hotel_rates' = hotel_rates
       /\ pc' = "crashed" =>
            /\ flight_prices' = flight_prices
            /\ hotel_rates' = hotel_rates
            /\ rental_car_prices' = rental_car_prices
            /\ txns' = txns
      ]_vars

\* C22 witness: the run ended on an unhandled error in the hotel
\* orchestrator, before any hotel request; the flight row of the run is in
\* flight_prices, committed by the one transaction of the run.
C22_Witness ==
    /\ pc = "crashed"
    /\ flight_rows # <<>>
    /\ StoredOf("flights")
    /\ txns = <<Txn("flight_prices", flight_prices)>>
    /\ hotel_rates = <<>>
    /\ rental_car_prices = <<>>

\* how many tokens the pattern matches before position i, and how many of
\* them have a value
MatchedBefore(t, i) == Cardinality({j \in TokenStarts(t) : j < i})

ParseableBefore(t, i) == Cardinality({j \in ParseableStarts(t) : j < i})

\* C23: in Variant B a matched token whose digit group has no value takes
\* no place in the top-20 window: every token with a value that has fewer
\* than 20 tokens with a value before it is in the window, however many
\* matched tokens precede it, so when it is at least 300 the price is not
\* above it, and when it is the only one the price is its value.
C23_UnparseableTakesNoPlace ==
    parsed.variant = "B" =>
        \A i \in ParseableStarts(full_text) :
            ParseableBefore(full_text, i) < 20 =>
                /\ parsed.price # None
                /\ TokenValue(full_text, i) >= 300 =>
                       parsed.price <= TokenValue(full_text, i)
                /\ Cardinality(ParseableStarts(full_text)) = 1 =>
                       parsed.price = TokenValue(full_text, i)

\* C23 witness: the 21st matched token, behind an unparseable one and 19
\* dearer ones, was in the window and gave the price.
C23_Witness ==
    /\ parsed.variant = "B"
    /\ \E i \in ParseableStarts(full_text) :
          /\ MatchedBefore(full_text, i) = 20
          /\ ParseableBefore(full_text, i) = 19
          /\ TokenValue(full_text, i) = parsed.price
          /\ \A j \in ParseableStarts(full_text) :
                 j < i => TokenValue(full_text, j) > parsed.price


====
